---- MODULE Spec2Model ----
(***************************************************************************)
(* Model of the root component of the ReCall mobile app                    *)
(* (src/frontend/App.js): the agreement gate backed by AsyncStorage, and   *)
(* the navigation state (active tab, focused conversation, retro theme).   *)
(*                                                                         *)
(* JavaScript values are tagged records so that truthiness, typeof and     *)
(* === are computed as the language computes them.                         *)
(***************************************************************************)
EXTENDS Integers, FiniteSets, Sequences, TLC

\* Largest number of AsyncStorage.setItem calls outstanding at one time.
MaxWrites == 2

----------------------------------------------------------------------------
(* JavaScript values *)

Null == [t |-> "null"]
Undefined == [t |-> "undefined"]
Str(s) == [t |-> "string", s |-> s]
Num(n) == [t |-> "number", n |-> n]
Bool(b) == [t |-> "boolean", b |-> b]

\* An object, seen through the five properties handleOpenConversation reads;
\* a property the object lacks reads as undefined.
Obj(name, highlightTimestamp, highlightIndex, avatarUrl, headline) ==
    [t |-> "object", name |-> name,
     highlightTimestamp |-> highlightTimestamp,
     highlightIndex |-> highlightIndex,
     avatarUrl |-> avatarUrl, headline |-> headline]

\* ToBoolean
Truthy(v) ==
    CASE v.t = "null" -> FALSE
      [] v.t = "undefined" -> FALSE
      [] v.t = "string" -> v.s # ""
      [] v.t = "number" -> v.n # 0
      [] v.t = "boolean" -> v.b
      [] v.t = "object" -> TRUE

\* typeof
TypeOf(v) == IF v.t = "null" THEN "object" ELSE v.t

\* === on the values of this model (objects are compared by content; the
\* code only ever applies === to a string literal on one side)
StrictEq(a, b) == a = b

----------------------------------------------------------------------------
(* Constants of the program *)

AGREEMENT_ACCEPTED == Str("true")

home == Str("home")
upload == Str("upload")
highlights == Str("highlights")
memory == Str("memory")
Tabs == {home, upload, highlights, memory}

----------------------------------------------------------------------------
(* Inputs *)

\* What the agreement key may hold when the app boots.
StoreValues == {Null, Str(""), Str("false"), Str("1"), Str("True"), Str("true")}

\* Arguments screens may pass to onNavigateTab.
TabArgs == Tabs \cup {Null, Undefined, Str(""), Num(0), Str("settings"), Num(3)}

\* Arguments screens may pass to onOpenConversation.
Payloads ==
    { Null, Undefined, Str(""), Num(0), Bool(FALSE),
      Num(7), Bool(TRUE),
      Str("Alex"), Str("Jamie"),
      Obj(Undefined, Undefined, Undefined, Undefined, Undefined),
      Obj(Undefined, Undefined, Num(2), Undefined, Undefined),
      Obj(Str(""), Undefined, Undefined, Undefined, Undefined),
      Obj(Null, Num(5), Undefined, Undefined, Undefined),
      Obj(Str("Alex"), Undefined, Undefined, Undefined, Undefined),
      Obj(Str("Jamie"), Undefined, Undefined, Undefined, Undefined),
      Obj(Str("Alex"), Num(5), Num(2), Str("a.png"), Str("CTO")),
      Obj(Num(42), Undefined, Undefined, Undefined, Undefined),
      Obj(Num(0), Undefined, Undefined, Undefined, Undefined),
      Obj(Obj(Undefined, Undefined, Undefined, Undefined, Undefined),
          Undefined, Undefined, Undefined, Undefined) }

----------------------------------------------------------------------------
(* State *)

Call(op, arg) == [op |-> op, arg |-> arg]

VARIABLES
    activeTab,             \* useState('home')
    activeConversation,    \* useState(null)
    hasAcceptedAgreement,  \* useState(false)
    isCheckingAgreement,   \* useState(true)
    agreementChecked,      \* useState(false)
    isRetroTheme,          \* useState(false)
    store,                 \* AsyncStorage value under AGREEMENT_STORAGE_KEY
    readPc,                \* checkAgreementStatus: "idle", "awaiting", "done"
    storedValue,           \* the local of checkAgreementStatus
    writesInFlight,        \* setItem calls the store has not yet performed
    writesAcked,           \* setItem calls performed, handler not yet resumed
    warnings,              \* which console.warn lines have been logged
    lastCall               \* the latest navigation callback and its argument

vars == <<activeTab, activeConversation, hasAcceptedAgreement,
          isCheckingAgreement, agreementChecked, isRetroTheme,
          store, readPc, storedValue, writesInFlight, writesAcked, warnings,
          lastCall>>

gateVars == <<hasAcceptedAgreement, isCheckingAgreement, agreementChecked>>
navVars == <<activeTab, activeConversation, isRetroTheme>>
readVars == <<readPc, storedValue>>
writeVars == <<writesInFlight, writesAcked>>

Init ==
    /\ activeTab = home
    /\ activeConversation = Null
    /\ hasAcceptedAgreement = FALSE
    /\ isCheckingAgreement = TRUE
    /\ agreementChecked = FALSE
    /\ isRetroTheme = FALSE
    /\ store \in StoreValues
    /\ readPc = "idle"
    /\ storedValue = Undefined
    /\ writesInFlight = 0
    /\ writesAcked = 0
    /\ warnings = {}
    /\ lastCall = Call("none", Undefined)

----------------------------------------------------------------------------
(* Rendering *)

\* Which of the three returns of App() is taken.
View ==
    IF isCheckingAgreement THEN "loading"
    ELSE IF ~hasAcceptedAgreement THEN "consent"
    ELSE "app"

ConsentFormRendered == View = "consent"

\* Variant: the `if (!hasAcceptedAgreement)` return is missing.
NavigatorRenderedWithoutConsentBranch == ~isCheckingAgreement

NavigatorRendered == View = "app"

\* The tab screens of the fragment, for one theme.
TabScreens ==
    (IF StrictEq(activeTab, home)
        THEN {IF isRetroTheme THEN "RetroHomeScreen" ELSE "HomeScreen"}
        ELSE {})
    \cup (IF StrictEq(activeTab, upload)
        THEN {IF isRetroTheme THEN "RetroUploadScreen" ELSE "UploadScreen"}
        ELSE {})
    \cup (IF StrictEq(activeTab, memory)
        THEN {IF isRetroTheme THEN "RetroPeopleScreen" ELSE "PeopleScreen"}
        ELSE {})
    \cup (IF StrictEq(activeTab, highlights)
        THEN {IF isRetroTheme THEN "RetroHighlightsScreen"
              ELSE "HighlightsScreen"}
        ELSE {})

ConversationScreens ==
    {IF isRetroTheme THEN "RetroConversationScreen" ELSE "ConversationScreen"}

\* Variant: the conversation screen is overlaid on the tab's screen.
MountedScreensOverlay ==
    IF ~NavigatorRendered THEN {}
    ELSE (IF Truthy(activeConversation) THEN ConversationScreens ELSE {})
         \cup TabScreens

\* The screen components the third return of App() mounts.
MountedScreens ==
    IF ~NavigatorRendered THEN {}
    ELSE IF Truthy(activeConversation) THEN ConversationScreens
    ELSE TabScreens

----------------------------------------------------------------------------
(* Agreement gate *)

\* useEffect(..., []): checkAgreementStatus() up to its await.
CheckAgreementStatus ==
    /\ readPc = "idle"
    /\ readPc' = "awaiting"
    /\ UNCHANGED <<lastCall, gateVars, navVars, store, storedValue, writeVars,
                   warnings>>

\* Variant: `if (storedValue)` in place of `if (storedValue === 'true')`.
CheckAgreementStatusResolvedTruthy ==
    /\ readPc = "awaiting"
    /\ storedValue' = store
    /\ hasAcceptedAgreement' =
          IF Truthy(store) THEN TRUE ELSE hasAcceptedAgreement
    /\ isCheckingAgreement' = FALSE
    /\ readPc' = "done"
    /\ UNCHANGED <<lastCall, agreementChecked, navVars, store, writeVars,
                   warnings>>

\* Variant: the try block never calls setHasAcceptedAgreement.
CheckAgreementStatusResolvedForgetsFlag ==
    /\ readPc = "awaiting"
    /\ storedValue' = store
    /\ isCheckingAgreement' = FALSE
    /\ readPc' = "done"
    /\ UNCHANGED <<lastCall, hasAcceptedAgreement, agreementChecked, navVars,
                   store, writeVars, warnings>>

\* getItem resolves: the try block after the await, then finally.
CheckAgreementStatusResolved ==
    /\ readPc = "awaiting"
    /\ storedValue' = store
    /\ hasAcceptedAgreement' =
          IF StrictEq(store, AGREEMENT_ACCEPTED) THEN TRUE
          ELSE hasAcceptedAgreement
    /\ isCheckingAgreement' = FALSE
    /\ readPc' = "done"
    /\ UNCHANGED <<lastCall, agreementChecked, navVars, store, writeVars,
                   warnings>>

\* Variant: setIsCheckingAgreement(false) sits in the try block, not in a
\* finally.
CheckAgreementStatusRejectedNoFinally ==
    /\ readPc = "awaiting"
    /\ warnings' = warnings \cup {"Failed to read agreement preference"}
    /\ readPc' = "done"
    /\ UNCHANGED <<lastCall, gateVars, navVars, store, storedValue, writeVars>>

\* getItem rejects: catch, then finally.
CheckAgreementStatusRejected ==
    /\ readPc = "awaiting"
    /\ warnings' = warnings \cup {"Failed to read agreement preference"}
    /\ isCheckingAgreement' = FALSE
    /\ readPc' = "done"
    /\ UNCHANGED <<lastCall, hasAcceptedAgreement, agreementChecked, navVars,
                   store, storedValue, writeVars>>

\* The checkbox row's onPress.
ToggleAgreementChecked ==
    /\ ConsentFormRendered
    /\ agreementChecked' = ~agreementChecked
    /\ UNCHANGED <<lastCall, hasAcceptedAgreement, isCheckingAgreement,
                   navVars, store, readVars, writeVars, warnings>>

\* Variant: the button lacks `disabled={!agreementChecked}`.
AcceptEnabledWithoutTick == ConsentFormRendered

\* The "Agree & Continue" button is pressable.
AcceptEnabled == ConsentFormRendered /\ agreementChecked

\* Variant: the flag is set before the write is awaited.
HandleAcceptAgreementOptimistic ==
    /\ AcceptEnabled
    /\ writesInFlight + writesAcked < MaxWrites
    /\ writesInFlight' = writesInFlight + 1
    /\ hasAcceptedAgreement' = TRUE
    /\ UNCHANGED <<lastCall, isCheckingAgreement, agreementChecked, navVars,
                   store, readVars, writesAcked, warnings>>

\* handleAcceptAgreement up to its await.
HandleAcceptAgreement ==
    /\ AcceptEnabled
    /\ writesInFlight + writesAcked < MaxWrites
    /\ writesInFlight' = writesInFlight + 1
    /\ UNCHANGED <<lastCall, gateVars, navVars, store, readVars, writesAcked,
                   warnings>>

\* Variant: the value written is '1', not the 'true' the read compares to.
SetItemPerformedWritesOne ==
    /\ writesInFlight > 0
    /\ store' = Str("1")
    /\ writesInFlight' = writesInFlight - 1
    /\ writesAcked' = writesAcked + 1
    /\ UNCHANGED <<lastCall, gateVars, navVars, readVars, warnings>>

\* The store performs a setItem(AGREEMENT_STORAGE_KEY, 'true').
SetItemPerformed ==
    /\ writesInFlight > 0
    /\ store' = AGREEMENT_ACCEPTED
    /\ writesInFlight' = writesInFlight - 1
    /\ writesAcked' = writesAcked + 1
    /\ UNCHANGED <<lastCall, gateVars, navVars, readVars, warnings>>

\* handleAcceptAgreement resumes after a setItem that resolved.
HandleAcceptAgreementResolved ==
    /\ writesAcked > 0
    /\ writesAcked' = writesAcked - 1
    /\ hasAcceptedAgreement' = TRUE
    /\ UNCHANGED <<lastCall, isCheckingAgreement, agreementChecked, navVars,
                   store, readVars, writesInFlight, warnings>>

\* Variant: the catch block calls setHasAcceptedAgreement(false).
HandleAcceptAgreementRejectedResets ==
    /\ writesInFlight > 0
    /\ writesInFlight' = writesInFlight - 1
    /\ warnings' = warnings \cup {"Failed to save agreement acceptance"}
    /\ hasAcceptedAgreement' = FALSE
    /\ UNCHANGED <<lastCall, isCheckingAgreement, agreementChecked, navVars,
                   store, readVars, writesAcked>>

\* Variant: the catch block also unticks the checkbox.
HandleAcceptAgreementRejectedUnticks ==
    /\ writesInFlight > 0
    /\ writesInFlight' = writesInFlight - 1
    /\ warnings' = warnings \cup {"Failed to save agreement acceptance"}
    /\ agreementChecked' = FALSE
    /\ UNCHANGED <<lastCall, hasAcceptedAgreement, isCheckingAgreement,
                   navVars, store, readVars, writesAcked>>

\* handleAcceptAgreement resumes in its catch after a setItem that rejected.
HandleAcceptAgreementRejected ==
    /\ writesInFlight > 0
    /\ writesInFlight' = writesInFlight - 1
    /\ warnings' = warnings \cup {"Failed to save agreement acceptance"}
    /\ UNCHANGED <<lastCall, gateVars, navVars, store, readVars, writesAcked>>

----------------------------------------------------------------------------
(* Navigation *)

\* The object handleOpenConversation stores for a normalized payload.
ConversationOf(normalizedPayload) ==
    Obj(normalizedPayload.name, normalizedPayload.highlightTimestamp,
        normalizedPayload.highlightIndex, normalizedPayload.avatarUrl,
        normalizedPayload.headline)

\* Variant: a string payload is not wrapped into an object.
NormalizeWithoutWrap(payload) == payload

\* typeof payload === 'string' ? { name: payload } : payload
Normalize(payload) ==
    IF TypeOf(payload) = "string"
    THEN Obj(payload, Undefined, Undefined, Undefined, Undefined)
    ELSE payload

\* Variant: the `if (!name) return` line is missing.
OpenConversationRejectsWithoutNameCheck(payload) ==
    \/ ~Truthy(payload)
    \/ ~Truthy(Normalize(payload))
    \/ TypeOf(Normalize(payload)) # "object"

\* The three early returns of handleOpenConversation.
OpenConversationRejects(payload) ==
    \/ ~Truthy(payload)
    \/ ~Truthy(Normalize(payload))
    \/ TypeOf(Normalize(payload)) # "object"
    \/ ~Truthy(Normalize(payload).name)

\* Variant: setActiveTab('memory') is missing.
HandleOpenConversationKeepsTab(payload) ==
    /\ NavigatorRendered
    /\ lastCall' = Call("openConversation", payload)
    /\ IF OpenConversationRejects(payload)
       THEN UNCHANGED activeConversation
       ELSE activeConversation' = ConversationOf(Normalize(payload))
    /\ UNCHANGED <<gateVars, activeTab, isRetroTheme, store, readVars,
                   writeVars, warnings>>

HandleOpenConversation(payload) ==
    /\ NavigatorRendered
    /\ lastCall' = Call("openConversation", payload)
    /\ IF OpenConversationRejects(payload)
       THEN UNCHANGED <<activeConversation, activeTab>>
       ELSE /\ activeConversation' = ConversationOf(Normalize(payload))
            /\ activeTab' = memory
    /\ UNCHANGED <<gateVars, isRetroTheme, store, readVars, writeVars,
                   warnings>>

\* Variant: setActiveConversation(null) is missing.
HandleNavigateTabKeepsConversation(tab) ==
    /\ NavigatorRendered
    /\ lastCall' = Call("navigateTab", tab)
    /\ IF ~Truthy(tab)
       THEN UNCHANGED activeTab
       ELSE activeTab' = tab
    /\ UNCHANGED <<gateVars, activeConversation, isRetroTheme, store, readVars,
                   writeVars, warnings>>

HandleNavigateTab(tab) ==
    /\ NavigatorRendered
    /\ lastCall' = Call("navigateTab", tab)
    /\ IF ~Truthy(tab)
       THEN UNCHANGED <<activeConversation, activeTab>>
       ELSE /\ activeConversation' = Null
            /\ activeTab' = tab
    /\ UNCHANGED <<gateVars, isRetroTheme, store, readVars, writeVars,
                   warnings>>

\* Variant: the onPress handlers only call setActiveTab.
NavBarPressKeepsConversation(tab) ==
    /\ NavigatorRendered
    /\ lastCall' = Call("navBarPress", tab)
    /\ activeTab' = tab
    /\ UNCHANGED <<gateVars, activeConversation, isRetroTheme, store, readVars,
                   writeVars, warnings>>

\* onPress of one of the four bottom navigation items.
NavBarPress(tab) ==
    /\ NavigatorRendered
    /\ lastCall' = Call("navBarPress", tab)
    /\ activeConversation' = Null
    /\ activeTab' = tab
    /\ UNCHANGED <<gateVars, isRetroTheme, store, readVars, writeVars,
                   warnings>>

\* onBack of the conversation screen.
OnBack ==
    /\ NavigatorRendered
    /\ Truthy(activeConversation)
    /\ lastCall' = Call("onBack", Undefined)
    /\ activeConversation' = Null
    /\ UNCHANGED <<gateVars, activeTab, isRetroTheme, store, readVars,
                   writeVars, warnings>>

\* Variant: the button is rendered on every tab and over a conversation.
ThemeToggleRenderedEverywhere == NavigatorRendered

\* The theme toggle button is rendered.
ThemeToggleRendered ==
    /\ NavigatorRendered
    /\ ~Truthy(activeConversation)
    /\ StrictEq(activeTab, home)

\* Variant: setIsRetroTheme(true) in place of the functional update.
HandleToggleThemeSetsRetro ==
    /\ ThemeToggleRendered
    /\ lastCall' = Call("toggleTheme", Undefined)
    /\ isRetroTheme' = TRUE
    /\ UNCHANGED <<gateVars, activeTab, activeConversation, store, readVars,
                   writeVars, warnings>>

HandleToggleTheme ==
    /\ ThemeToggleRendered
    /\ lastCall' = Call("toggleTheme", Undefined)
    /\ isRetroTheme' = ~isRetroTheme
    /\ UNCHANGED <<gateVars, activeTab, activeConversation, store, readVars,
                   writeVars, warnings>>

----------------------------------------------------------------------------

Next ==
    \/ CheckAgreementStatus
    \/ CheckAgreementStatusResolved
    \/ CheckAgreementStatusRejected
    \/ ToggleAgreementChecked
    \/ HandleAcceptAgreement
    \/ SetItemPerformed
    \/ HandleAcceptAgreementResolved
    \/ HandleAcceptAgreementRejected
    \/ \E payload \in Payloads : HandleOpenConversation(payload)
    \/ \E tab \in TabArgs : HandleNavigateTab(tab)
    \/ \E tab \in Tabs : NavBarPress(tab)
    \/ OnBack
    \/ HandleToggleTheme

Spec == Init /\ [][Next]_vars

----------------------------------------------------------------------------
(* Properties of the agreement gate *)

ReadWarned == "Failed to read agreement preference" \in warnings
SaveWarned == "Failed to save agreement acceptance" \in warnings

\* The step in which checkAgreementStatus resumes after its await.
ReadCompletes == readPc = "awaiting" /\ readPc' = "done"

\* The step in which a setItem call rejects and the catch block runs.
WriteFails ==
    writesInFlight' = writesInFlight - 1 /\ writesAcked' = writesAcked

\* The step in which handleAcceptAgreement resumes after a successful write.
WriteSucceeds == writesAcked' = writesAcked - 1

\* C1: while the agreement is being checked or has not been accepted, the
\* navigator is not rendered, no screen is mounted, and the navigation state
\* is still the initial one: home tab, no conversation, standard theme.
GateBlocksNavigation ==
    (isCheckingAgreement \/ ~hasAcceptedAgreement) =>
        /\ ~NavigatorRendered
        /\ MountedScreens = {}
        /\ activeTab = home
        /\ activeConversation = Null
        /\ ~isRetroTheme
        /\ lastCall = Call("none", Undefined)

\* C1 witness: the consent form is up, ticked, with a write outstanding.
GateBlocksNavigationWitness ==
    /\ ConsentFormRendered
    /\ agreementChecked
    /\ writesInFlight > 0

\* C2: when the boot-time read completes with anything but exactly "true",
\* or throws, the gate is left showing the consent form; and it keeps
\* showing it for as long as the store does not hold "true".
FailClosed ==
    /\ [][(ReadCompletes /\ storedValue' # AGREEMENT_ACCEPTED) =>
            (~isCheckingAgreement' /\ ~hasAcceptedAgreement'
             /\ ConsentFormRendered')]_vars
    /\ [](readPc = "done" /\ storedValue # AGREEMENT_ACCEPTED
          /\ store # AGREEMENT_ACCEPTED => ConsentFormRendered)

\* C2 witness: the read returned "True" and the consent form is shown.
FailClosedWitness ==
    /\ readPc = "done"
    /\ storedValue = Str("True")
    /\ ConsentFormRendered

\* C3: whenever the agreement counts as accepted the store holds "true",
\* and the flag is only ever raised from a state whose store holds "true".
AcceptedImpliesPersisted ==
    /\ [](hasAcceptedAgreement => store = AGREEMENT_ACCEPTED)
    /\ [][(~hasAcceptedAgreement /\ hasAcceptedAgreement') =>
            store = AGREEMENT_ACCEPTED]_vars

\* C3 witness: accepted through the form, after an earlier write failed,
\* with another write still outstanding.
AcceptedImpliesPersistedWitness ==
    /\ hasAcceptedAgreement
    /\ storedValue # AGREEMENT_ACCEPTED
    /\ SaveWarned
    /\ writesInFlight > 0

\* C4: a failed write changes neither the gate flags nor the navigation
\* state nor the store, so an enabled accept button stays enabled; a write
\* that succeeds afterwards leaves the gate accepted.
WriteFailureKeepsConsentForm ==
    /\ [][WriteFails =>
            /\ UNCHANGED <<hasAcceptedAgreement, isCheckingAgreement,
                           agreementChecked, activeTab, activeConversation,
                           isRetroTheme, store>>
            /\ (AcceptEnabled => AcceptEnabled')]_vars
    /\ [][WriteSucceeds => (hasAcceptedAgreement' /\ NavigatorRendered')]_vars

\* C4 witness: a write has failed, the form is still shown and still ticked.
WriteFailureKeepsConsentFormWitness ==
    /\ SaveWarned
    /\ AcceptEnabled
    /\ writesInFlight = 0
    /\ writesAcked = 0

\* C5 as stated: every boot that finds "true" in the store leaves the
\* loading view for the navigator.
StoredTrueSkipsConsent ==
    [][(ReadCompletes /\ store = AGREEMENT_ACCEPTED) =>
         (hasAcceptedAgreement' /\ NavigatorRendered')]_vars

\* C5 amended: every boot whose read returns "true" leaves the loading view
\* for the navigator, and the consent form is rendered in no state of that
\* session: loading until the read completes, the navigator ever after.
ReturnedTrueSkipsConsent ==
    /\ [][(ReadCompletes /\ storedValue' = AGREEMENT_ACCEPTED) =>
            (View = "loading" /\ NavigatorRendered')]_vars
    /\ [](readPc # "done" => View = "loading")
    /\ [](storedValue = AGREEMENT_ACCEPTED => NavigatorRendered)

\* C5 witness: the read returned "true" and the user is already navigating.
ReturnedTrueSkipsConsentWitness ==
    /\ storedValue = AGREEMENT_ACCEPTED
    /\ ~agreementChecked
    /\ activeConversation # Null

\* The state of the gate's state machine.
Gate ==
    IF isCheckingAgreement THEN "CHECKING"
    ELSE IF hasAcceptedAgreement THEN "ACCEPTED"
    ELSE "PENDING_CONSENT"

\* C6: once accepted, always accepted; the gate only moves from CHECKING to
\* ACCEPTED or PENDING_CONSENT and from PENDING_CONSENT to ACCEPTED.
AcceptedIsTerminal ==
    /\ [][hasAcceptedAgreement => hasAcceptedAgreement']_vars
    /\ [][\/ Gate' = Gate
          \/ Gate = "CHECKING" /\ Gate' \in {"ACCEPTED", "PENDING_CONSENT"}
          \/ Gate = "PENDING_CONSENT" /\ Gate' = "ACCEPTED"]_vars

\* C6 witness: accepted and navigating while a second write is outstanding.
AcceptedIsTerminalWitness ==
    /\ hasAcceptedAgreement
    /\ lastCall.op = "openConversation"
    /\ activeConversation # Null
    /\ isRetroTheme
    /\ writesInFlight > 0

\* C7: once the boot-time read has completed, by value or by exception,
\* isCheckingAgreement is false; it changes only in the step that completes
\* the read, from true to false, and so never again.
CheckingClearedOnce ==
    /\ [](readPc = "done" => ~isCheckingAgreement)
    /\ [](readPc # "done" => isCheckingAgreement)
    /\ [][isCheckingAgreement' # isCheckingAgreement =>
            (ReadCompletes /\ isCheckingAgreement
             /\ ~isCheckingAgreement')]_vars

\* C7 witness: the read threw and the loading view is gone.
CheckingClearedOnceWitness ==
    /\ readPc = "done"
    /\ ReadWarned
    /\ ~isCheckingAgreement

----------------------------------------------------------------------------
(* Properties of the navigation state *)

TabScreenNames ==
    {"HomeScreen", "RetroHomeScreen", "UploadScreen", "RetroUploadScreen",
     "PeopleScreen", "RetroPeopleScreen", "HighlightsScreen",
     "RetroHighlightsScreen"}

ConversationScreenNames == {"ConversationScreen", "RetroConversationScreen"}

TabScreenMounted == MountedScreens \cap TabScreenNames # {}
ConversationScreenMounted == MountedScreens \cap ConversationScreenNames # {}

\* C8: a tab screen and a conversation screen are never mounted together;
\* a tab screen is mounted only with no active conversation, and the
\* conversation screen exactly when there is one.
MutualExclusivity ==
    NavigatorRendered =>
        /\ ~(TabScreenMounted /\ ConversationScreenMounted)
        /\ (TabScreenMounted => activeConversation = Null)
        /\ (ConversationScreenMounted <=> activeConversation # Null)

\* C8 witness: a conversation is open on the memory tab in the retro theme.
MutualExclusivityWitness ==
    /\ activeConversation # Null
    /\ activeTab = memory
    /\ MountedScreens = {"RetroConversationScreen"}

\* A payload that normalizes to a target with a non-empty string name.
NamedPayload(p) ==
    \/ p.t = "string" /\ p.s # ""
    \/ p.t = "object" /\ p.name.t = "string" /\ p.name.s # ""

\* The conversation target such a payload asks for.
TargetOf(p) ==
    IF p.t = "string"
    THEN Obj(p, Undefined, Undefined, Undefined, Undefined)
    ELSE Obj(p.name, p.highlightTimestamp, p.highlightIndex, p.avatarUrl,
             p.headline)

\* C9: from any tab, openConversation with a payload naming n ends on the
\* memory tab with a conversation named n that carries the payload's
\* highlightTimestamp, highlightIndex, avatarUrl and headline; the theme is
\* unchanged.
TabForcingOnOpen ==
    [][\A p \in Payloads :
         (HandleOpenConversation(p) /\ NamedPayload(p)) =>
            /\ activeTab' = memory
            /\ activeConversation'.name = TargetOf(p).name
            /\ activeConversation' = TargetOf(p)
            /\ isRetroTheme' = isRetroTheme]_vars

\* C9 witness: a full payload for Alex was opened in the retro theme.
TabForcingOnOpenWitness ==
    /\ lastCall = Call("openConversation",
                       Obj(Str("Alex"), Num(5), Num(2), Str("a.png"),
                           Str("CTO")))
    /\ activeTab = memory
    /\ activeConversation.name = Str("Alex")
    /\ isRetroTheme

\* A payload that is falsy, or neither a string nor an object, or an object
\* with no name or an empty one.
MalformedPayload(p) ==
    \/ p.t \in {"null", "undefined"}
    \/ p = Str("")
    \/ p.t \in {"number", "boolean"}
    \/ /\ p.t = "object"
       /\ \/ p.name.t \in {"null", "undefined"}
          \/ p.name = Str("")
          \/ p.name = Num(0)

\* C10: openConversation with a malformed payload changes neither the tab
\* nor the conversation nor the theme.
MalformedOpenIsIgnored ==
    [][\A p \in Payloads :
         (HandleOpenConversation(p) /\ MalformedPayload(p)) =>
            UNCHANGED <<activeTab, activeConversation, isRetroTheme>>]_vars

\* C10 witness: the latest call was openConversation({highlightIndex: 2}),
\* made while a conversation was open on the retro theme, and it still is.
MalformedOpenIsIgnoredWitness ==
    /\ lastCall = Call("openConversation",
                       Obj(Undefined, Undefined, Num(2), Undefined,
                           Undefined))
    /\ activeConversation # Null
    /\ isRetroTheme

\* What one call of handleOpenConversation leaves in activeConversation and
\* activeTab, from the current state.
OpenConversationOutcome(payload) ==
    IF OpenConversationRejects(payload)
    THEN <<activeConversation, activeTab>>
    ELSE <<ConversationOf(Normalize(payload)), memory>>

\* The object { name: s }.
NameOnly(s) == Obj(s, Undefined, Undefined, Undefined, Undefined)

StringPayloads == {p \in Payloads : p.t = "string"}

\* C11: from any state, openConversation(s) for a string s leaves the state
\* that openConversation({name: s}) leaves, and the other way round.
StringEquivalentToNameObject ==
    [][\A s \in StringPayloads :
         /\ HandleOpenConversation(s) =>
               /\ <<activeConversation', activeTab'>>
                     = OpenConversationOutcome(NameOnly(s))
               /\ UNCHANGED <<gateVars, isRetroTheme, store>>
         /\ HandleOpenConversation(NameOnly(s)) =>
               /\ <<activeConversation', activeTab'>>
                     = OpenConversationOutcome(s)
               /\ UNCHANGED <<gateVars, isRetroTheme, store>>]_vars

\* C11 witness: openConversation("Jamie") was called from another tab's
\* state and left the conversation {name: "Jamie"} on the memory tab.
StringEquivalentToNameObjectWitness ==
    /\ lastCall = Call("openConversation", Str("Jamie"))
    /\ activeConversation = NameOnly(Str("Jamie"))
    /\ activeTab = memory

\* C12 as stated: navigateTab with an argument that is falsy or not one of
\* the four tabs changes nothing, so activeTab is always one of the four.
UnrecognizedTabIsIgnored ==
    /\ [][\A tab \in TabArgs \ Tabs :
            HandleNavigateTab(tab) =>
               UNCHANGED <<activeTab, activeConversation>>]_vars
    /\ [](activeTab \in Tabs)

\* C13: navigateTab(t) and a press on the nav-bar item t, for a valid tab t,
\* end with no conversation, activeTab = t and the theme unchanged, so the
\* tab's own screen is the one mounted.
NavigateClearsConversation ==
    [][\A tab \in Tabs :
         (HandleNavigateTab(tab) \/ NavBarPress(tab)) =>
            /\ activeConversation' = Null
            /\ activeTab' = tab
            /\ isRetroTheme' = isRetroTheme
            /\ ~ConversationScreenMounted'
            /\ TabScreenMounted']_vars

\* C13 witness: navigateTab('memory') was the latest call and the people
\* list is mounted.
NavigateClearsConversationWitness ==
    /\ lastCall = Call("navigateTab", memory)
    /\ activeConversation = Null
    /\ activeTab = memory
    /\ MountedScreens = {"RetroPeopleScreen"}

PeopleScreenNames == {"PeopleScreen", "RetroPeopleScreen"}

\* C14: an active conversation is only ever present on the memory tab; so
\* onBack, which clears the conversation and changes neither the tab nor
\* the theme, leaves the memory tab's people list mounted.
ConversationOnlyOnMemory ==
    /\ [](activeConversation # Null => activeTab = memory)
    /\ [][OnBack =>
            /\ activeConversation' = Null
            /\ UNCHANGED <<activeTab, isRetroTheme>>
            /\ activeTab' = memory
            /\ MountedScreens' \subseteq PeopleScreenNames
            /\ MountedScreens' # {}]_vars

\* C14 witness: onBack was the latest call and the retro people list shows.
ConversationOnlyOnMemoryWitness ==
    /\ lastCall = Call("onBack", Undefined)
    /\ activeConversation = Null
    /\ MountedScreens = {"RetroPeopleScreen"}

\* C15: toggleTheme flips isRetroTheme and changes neither the tab, the
\* conversation, the consent state nor the store, and leaves the toggle
\* available; so a second toggle restores the state, theme included.
ToggleThemeOnlyFlipsTheme ==
    [][HandleToggleTheme =>
         /\ isRetroTheme' = ~isRetroTheme
         /\ UNCHANGED <<activeTab, activeConversation, gateVars, store>>
         /\ ThemeToggleRendered']_vars

\* C15 witness: the theme was toggled last and is back to standard, which
\* takes an even number of toggles.
ToggleThemeOnlyFlipsThemeWitness ==
    /\ lastCall = Call("toggleTheme", Undefined)
    /\ ~isRetroTheme
    /\ activeTab = home
    /\ activeConversation = Null

\* C16: every step that changes the theme starts with the agreement
\* accepted, on the home tab, with no conversation open.
ThemeChangesOnlyOnHome ==
    [][isRetroTheme' # isRetroTheme =>
         /\ hasAcceptedAgreement
         /\ ~isCheckingAgreement
         /\ activeTab = home
         /\ activeConversation = Null]_vars

\* C16 witness: the retro theme is on while a conversation is open, where
\* the toggle is not rendered.
ThemeChangesOnlyOnHomeWitness ==
    /\ isRetroTheme
    /\ activeConversation # Null
    /\ ~ThemeToggleRendered
    /\ lastCall.op = "openConversation"

----------------------------------------------------------------------------
(* End to end, and the accept button *)

\* The step in which handleAcceptAgreement issues its setItem.
WriteIssued == writesInFlight' = writesInFlight + 1

\* C17: a boot that finds no stored key shows the loading view until the
\* read completes, then the consent form with the box unticked; accept can
\* only be pressed with the box ticked; and the form gives way to the
\* navigator only in the step that resumes after a successful write, with
\* the store holding "true", on the home tab, with no conversation and the
\* standard theme.
FirstLaunch ==
    /\ [](readPc # "done" => View = "loading")
    /\ [][(ReadCompletes /\ storedValue' = Null) =>
            (View = "loading" /\ ConsentFormRendered'
             /\ ~agreementChecked')]_vars
    /\ [][WriteIssued => (ConsentFormRendered /\ agreementChecked)]_vars
    /\ [][(ConsentFormRendered /\ ~ConsentFormRendered') =>
            /\ WriteSucceeds
            /\ store' = AGREEMENT_ACCEPTED
            /\ NavigatorRendered'
            /\ MountedScreens' = {"HomeScreen"}
            /\ activeTab' = home
            /\ activeConversation' = Null
            /\ ~isRetroTheme']_vars

\* C17 witness: the read returned null, no write failed, and the app has
\* just arrived on the home screen with "true" stored.
FirstLaunchWitness ==
    /\ storedValue = Null
    /\ readPc = "done"
    /\ warnings = {}
    /\ store = AGREEMENT_ACCEPTED
    /\ agreementChecked
    /\ MountedScreens = {"HomeScreen"}
    /\ lastCall = Call("none", Undefined)
    /\ writesInFlight = 0
    /\ writesAcked = 0

\* C18 as stated: once the navigator is rendered, exactly one screen is
\* mounted.
ExactlyOneScreen ==
    NavigatorRendered => Cardinality(MountedScreens) = 1

\* C19 as stated: at most one setItem call is outstanding at any time, and
\* accept is pressed only when none is.
SingleWriteInFlight ==
    /\ [](writesInFlight + writesAcked <= 1)
    /\ [][WriteIssued => writesInFlight + writesAcked = 0]_vars

\* The step in which the consent form's acceptance takes effect.
AcceptedThroughForm ==
    ~hasAcceptedAgreement /\ hasAcceptedAgreement' /\ ~ReadCompletes

\* C20 as stated: every write is issued with the form shown and the box
\* ticked, and the box is ticked at the moment acceptance takes effect.
TickedWhenAccepted ==
    /\ [][WriteIssued =>
            (~isCheckingAgreement /\ ~hasAcceptedAgreement
             /\ agreementChecked)]_vars
    /\ [][AcceptedThroughForm => agreementChecked]_vars

\* C20 amended: every write is issued with the form shown and the box
\* ticked, and acceptance through the form takes effect only in the step
\* that resumes after such a write; the box itself may have been unticked
\* while the write was outstanding.
TickedWhenIssued ==
    /\ [][WriteIssued =>
            (~isCheckingAgreement /\ ~hasAcceptedAgreement
             /\ agreementChecked)]_vars
    /\ [][AcceptedThroughForm =>
            (WriteSucceeds /\ ConsentFormRendered
             /\ UNCHANGED agreementChecked)]_vars

\* C20 witness: accepted through the form with the box unticked meanwhile.
TickedWhenIssuedWitness ==
    /\ hasAcceptedAgreement
    /\ storedValue # AGREEMENT_ACCEPTED
    /\ ~agreementChecked

\* C21 as stated: whenever a conversation is active its name is a non-empty
\* string, whatever payload openConversation was called with.
ConversationNameIsString ==
    activeConversation # Null =>
        /\ activeConversation.name.t = "string"
        /\ activeConversation.name.s # ""

====
